---- MODULE Spec2Model ----
(***************************************************************************)
(* A model of condotti.di.DottiFactory (src/bootstrap/src/condotti/di.js): *)
(* the configuration-driven object factory with its three public           *)
(* operations get, set and configure, the dependency callback `next`, the  *)
(* private builder create_, and the collaborators it consumes              *)
(* (C.algorithm.sorting.topology, C.lang.merge, C.namespace).              *)
(***************************************************************************)
EXTENDS Integers, Sequences, FiniteSets, TLC

\* ------------------------------------------------------------------ bounds
\* Objects the factory may allocate (Object.create) in one behaviour.
MaxObjects == 3
\* Calls of set and configure in one behaviour.
MaxCalls == 2

\* ------------------------------------------------------------- JS values
\* A JavaScript value: its kind and, for a primitive, its payload; for an
\* object, its identity (heap address > 0 for objects the factory created,
\* < 0 for objects created by the caller).  Reference equality of objects is
\* equality of these records.
Undefined == [kind |-> "undefined", id |-> 0]
Num(n)    == [kind |-> "number", id |-> n]
Str(i)    == [kind |-> "string", id |-> i]     \* Str(0) is the empty string
Obj(i)    == [kind |-> "object", id |-> i]
Bool(b)   == [kind |-> "boolean", id |-> IF b THEN 1 ELSE 0]

\* ToBoolean of a value, as the `!x` and `if (x)` tests of the source apply it.
Truthy(v) ==
    CASE v.kind = "undefined" -> FALSE
      [] v.kind = "null"      -> FALSE
      [] v.kind = "number"    -> v.id # 0
      [] v.kind = "string"    -> v.id # 0
      [] v.kind = "boolean"   -> v.id = 1
      [] OTHER                -> TRUE

\* The names of managed objects used in the model.
Names == {"A", "B", "C"}

\* Property read obj[key] of a JS object used as a map: undefined when the
\* key is absent.
Lookup(obj, key) == IF key \in DOMAIN obj THEN obj[key] ELSE Undefined

\* The empty JS object {}.
EmptyMap == [x \in {} |-> Undefined]

Range(s) == {s[i] : i \in DOMAIN s}

\* ------------------------------------------------------------ ParamSpecs
\* A parameter spec is the JS value null, or an object with some of the
\* properties reference, type, value.
NullParam    == [null |-> TRUE]
Ref(n)       == [reference |-> n]
Val(v)       == [value |-> v]
DateParam(v) == [type |-> "Date", value |-> v]
EmptyParam   == [x \in {} |-> Undefined]            \* the spec {}

\* Slot keys are decimal strings, held as their digit sequences.
Key(n) == IF n < 10 THEN <<n>> ELSE <<n \div 10, n % 10>>

\* parseInt(key) of a decimal string.
RECURSIVE parseInt(_)
parseInt(key) ==
    IF key = <<>> THEN 0
    ELSE 10 * parseInt(SubSeq(key, 1, Len(key) - 1)) + key[Len(key)]

\* Lexicographic order of two decimal strings, as Array.prototype.sort()
\* without a comparator orders them ("10" before "2").
RECURSIVE LexLess(_, _)
LexLess(a, b) ==
    IF a = <<>> THEN b # <<>>
    ELSE IF b = <<>> THEN FALSE
    ELSE IF a[1] # b[1] THEN a[1] < b[1]
    ELSE LexLess(Tail(a), Tail(b))

\* keys.sort(): the keys in lexicographic order.
RECURSIVE sort(_)
sort(keys) ==
    IF keys = {} THEN <<>>
    ELSE LET least == CHOOSE k \in keys : \A o \in keys \ {k} : LexLess(k, o)
         IN <<least>> \o sort(keys \ {least})

\* Object.keys(obj) of an object whose keys are integer-like strings: the
\* keys in ascending numeric order.
RECURSIVE ObjectKeys(_)
ObjectKeys(keys) ==
    IF keys = {} THEN <<>>
    ELSE LET least == CHOOSE k \in keys :
                          \A o \in keys \ {k} : parseInt(k) < parseInt(o)
         IN <<least>> \o ObjectKeys(keys \ {least})

\* ------------------------------------------------------------ exceptions
NoError == [kind |-> "none", name |-> ""]
Throw(kind, name) == [kind |-> kind, name |-> name]

\* ------------------------------------------------- dependency resolution
\* The reference targets without the last of them.
references_AllButLast(params) ==
    LET keys == ObjectKeys(DOMAIN params)
        refs == SelectSeq(keys, LAMBDA k : "reference" \in DOMAIN params[k])
    IN [i \in 1..(Len(refs) - 1) |-> params[refs[i]].reference]

\* The reference targets of a params object, in the order of Object.keys.
references(params) ==
    LET keys == ObjectKeys(DOMAIN params)
        refs == SelectSeq(keys, LAMBDA k : "reference" \in DOMAIN params[k])
    IN [i \in DOMAIN refs |-> params[refs[i]].reference]

\* next without its first test: it descends into the dependencies of a name
\* that is in the cache already.
next_DescendsIntoCached(cfg, cache, current) ==
    IF current \notin DOMAIN cfg
    THEN [thrown |-> Throw("ReferenceError", current), value |-> <<>>]
    ELSE IF NullParam \in Range(cfg[current].params)
    THEN [thrown |-> Throw("TypeError", current), value |-> <<>>]
    ELSE [thrown |-> NoError, value |-> references(cfg[current].params)]

\* next with a filter that lets no key through: no name has dependencies.
next_NoReferences(cfg, cache, current) ==
    IF Truthy(Lookup(cache, current))
    THEN [thrown |-> NoError, value |-> <<>>]
    ELSE IF current \notin DOMAIN cfg
    THEN [thrown |-> Throw("ReferenceError", current), value |-> <<>>]
    ELSE [thrown |-> NoError, value |-> <<>>]

\* next without its second test: a name without configuration is taken to
\* have no dependencies.
next_NoConfigCheck(cfg, cache, current) ==
    IF Truthy(Lookup(cache, current)) \/ current \notin DOMAIN cfg
    THEN [thrown |-> NoError, value |-> <<>>]
    ELSE IF NullParam \in Range(cfg[current].params)
    THEN [thrown |-> Throw("TypeError", current), value |-> <<>>]
    ELSE [thrown |-> NoError, value |-> references(cfg[current].params)]

\* The callback of get: the names `current` depends on.  An object already
\* in the cache (a truthy entry) has no dependencies; a name without
\* configuration throws ReferenceError; otherwise the targets of the
\* reference parameters, in key order.  The `in` operator applied to a null
\* parameter throws TypeError.
next(cfg, cache, current) ==
    IF Truthy(Lookup(cache, current))
    THEN [thrown |-> NoError, value |-> <<>>]
    ELSE IF current \notin DOMAIN cfg
    THEN [thrown |-> Throw("ReferenceError", current), value |-> <<>>]
    ELSE LET params == cfg[current].params
         IN IF NullParam \in Range(params)
            THEN [thrown |-> Throw("TypeError", current), value |-> <<>>]
            ELSE [thrown |-> NoError, value |-> references(params)]

\* C.algorithm.sorting.topology(name, next): depth-first post-order sort of
\* the graph that next spans from name; every name once, dependencies before
\* dependents, the root last.  A name met again while its own visit is in
\* progress is a dependency cycle.  An exception of next propagates.
RECURSIVE visit(_, _, _, _), visitAll(_, _, _, _)
visit(cfg, cache, n, st) ==
    IF st.thrown # NoError THEN st
    ELSE IF n \in st.visiting
    THEN [st EXCEPT !.thrown = Throw("CycleError", n)]
    ELSE IF n \in Range(st.order) THEN st
    ELSE LET r == next(cfg, cache, n)
         IN IF r.thrown # NoError
            THEN [st EXCEPT !.thrown = r.thrown]
            ELSE LET sub == visitAll(cfg, cache, r.value,
                                     [st EXCEPT !.visiting = @ \cup {n}])
                 IN IF sub.thrown # NoError THEN sub
                    ELSE [order    |-> Append(sub.order, n),
                          visiting |-> sub.visiting \ {n},
                          thrown   |-> NoError]

visitAll(cfg, cache, ns, st) ==
    IF ns = <<>> THEN st
    ELSE visitAll(cfg, cache, Tail(ns), visit(cfg, cache, Head(ns), st))

topology(cfg, cache, name) ==
    LET st == visit(cfg, cache, name,
                    [order |-> <<>>, visiting |-> {}, thrown |-> NoError])
    IN [thrown |-> st.thrown, value |-> st.order]

\* -------------------------------------------------------------- building
\* Assignment obj[key] = v on a JS object used as a map.
Put(obj, key, v) ==
    [k \in DOMAIN obj \cup {key} |-> IF k = key THEN v ELSE obj[k]]

\* The dotted type paths the configurations use, and C.namespace(path): what
\* the path resolves to.  "app.Service" is a constructor that returns
\* normally, "app.Faulty" a constructor that throws, "app.settings" a plain
\* object.
TypePaths == {"app.Service", "app.Faulty", "app.settings"}
namespace(path) ==
    CASE path = "app.Service"  -> [isFunction |-> TRUE,  throws |-> FALSE]
      [] path = "app.Faulty"   -> [isFunction |-> TRUE,  throws |-> TRUE]
      [] OTHER                 -> [isFunction |-> FALSE, throws |-> FALSE]

\* Date.parse(text) of the texts in use: seconds since the epoch of
\* Str(2) = "2021-01-01T00:00:00Z", NaN (-1) for any other value.
DateParse(v) == IF v = Str(2) THEN 1609459200 ELSE -1

\* A binding that drops every plain value.
bind_NoValue(cache, param) ==
    IF param = NullParam THEN Undefined
    ELSE IF "reference" \in DOMAIN param THEN Lookup(cache, param.reference)
    ELSE IF "type" \in DOMAIN param /\ param.type = "Date"
    THEN [kind |-> "date", id |-> DateParse(Lookup(param, "value"))]
    ELSE Undefined

\* One iteration of the forEach of create_: the value bound for one
\* parameter spec.
bind(cache, param) ==
    IF param = NullParam THEN Undefined
    ELSE IF "reference" \in DOMAIN param THEN Lookup(cache, param.reference)
    ELSE IF "type" \in DOMAIN param /\ param.type = "Date"
    THEN [kind |-> "date", id |-> DateParse(Lookup(param, "value"))]
    ELSE IF Truthy(Lookup(param, "value")) THEN param.value
    ELSE Undefined

\* A forEach that appends each bound value (params.push) in the order the
\* sorted keys are visited.
RECURSIVE bindAll_Push(_, _, _, _)
bindAll_Push(cache, params, keys, arr) ==
    IF keys = <<>> THEN arr
    ELSE bindAll_Push(cache, params, Tail(keys),
                      Put(arr, Cardinality(DOMAIN arr),
                          bind(cache, params[Head(keys)])))

\* The forEach of create_ over the sorted keys: params[parseInt(key)] = the
\* bound value, on the array `arr` (index -> value, holes left out).
RECURSIVE bindAll(_, _, _, _)
bindAll(cache, params, keys, arr) ==
    IF keys = <<>> THEN arr
    ELSE bindAll(cache, params, Tail(keys),
                 Put(arr, parseInt(Head(keys)), bind(cache, params[Head(keys)])))

\* An argument list that leaves the holes of the array out.
Arguments_Dense(arr) ==
    IF DOMAIN arr = {} THEN <<>>
    ELSE LET length == 1 + CHOOSE m \in DOMAIN arr : \A i \in DOMAIN arr : i <= m
             filled == SelectSeq([i \in 1..length |-> i - 1],
                                 LAMBDA j : j \in DOMAIN arr)
         IN [i \in DOMAIN filled |-> arr[filled[i]]]

\* The argument list type.apply receives from the array: arguments
\* 0 .. length-1 (held at 1 .. length), a hole read as undefined.
Arguments(arr) ==
    IF DOMAIN arr = {} THEN <<>>
    ELSE LET length == 1 + CHOOSE m \in DOMAIN arr : \A i \in DOMAIN arr : i <= m
         IN [i \in 1..length |-> Lookup(arr, i - 1)]

\* The new object left out of the cache.
instantiate_Unstored(cache, name, addr) == cache

\* this.cache_[name] = Object.create(type.prototype): the new object, at
\* address addr, is stored under name.
instantiate(cache, name, addr) == Put(cache, name, Obj(addr))

\* A builder that logs nothing when the type is no function.
report_Silent(name, type) == <<>>

\* this.logger_.error(message): the one message create_ sends to the logger
\* when the configured type is no function.
report(name, type) == <<[name |-> name, type |-> type]>>

\* create_(name) on the configuration cfg, the cache and the heap hp.  The
\* result holds the cache and heap it leaves, the messages it sent to the
\* logger, whether the constructor was invoked, and the exception it threw.
create_(cfg, cache, hp, name) ==
    IF name \notin DOMAIN cfg
    THEN [cache |-> cache, heap |-> hp, logged |-> <<>>, invoked |-> FALSE,
          thrown |-> Throw("TypeError", name)]
    ELSE LET config == cfg[name]
             type   == namespace(config.type)
             params == bindAll(cache, config.params,
                               sort(DOMAIN config.params), EmptyMap)
             addr   == Len(hp) + 1
         IN IF ~type.isFunction
            THEN [cache |-> cache, heap |-> hp,
                  logged |-> report(name, config.type),
                  invoked |-> FALSE, thrown |-> Throw("TypeError", name)]
            ELSE [cache |-> instantiate(cache, name, addr),
                  heap  |-> Append(hp, [proto |-> config.type,
                                        args  |-> IF type.throws THEN <<>>
                                                  ELSE Arguments(params),
                                        constructed |-> ~type.throws]),
                  logged |-> <<>>, invoked |-> TRUE,
                  thrown |-> IF type.throws THEN Throw("ConstructorError", name)
                             ELSE NoError]

\* ---------------------------------------------------------- configuring
\* C.lang.merge(target, source), level by level: the registry maps names to
\* descriptors, a descriptor holds type and params, params maps slot keys to
\* parameter specs, a parameter spec holds leaf values.  Mappings are merged
\* key by key, everything else is replaced.
mergeParam(p, q) ==
    IF p = NullParam \/ q = NullParam THEN q
    ELSE [f \in DOMAIN p \cup DOMAIN q |-> IF f \in DOMAIN q THEN q[f] ELSE p[f]]

mergeParams(ps, qs) ==
    [k \in DOMAIN ps \cup DOMAIN qs |->
        IF k \notin DOMAIN qs THEN ps[k]
        ELSE IF k \notin DOMAIN ps THEN qs[k]
        ELSE mergeParam(ps[k], qs[k])]

mergeDescriptor(d, e) ==
    [type   |-> IF "type" \in DOMAIN e THEN e.type ELSE d.type,
     params |-> IF "params" \in DOMAIN e THEN mergeParams(d.params, e.params)
                ELSE d.params]

merge(target, source) ==
    [n \in DOMAIN target \cup DOMAIN source |->
        IF n \notin DOMAIN source THEN target[n]
        ELSE IF n \notin DOMAIN target THEN source[n]
        ELSE mergeDescriptor(target[n], source[n])]

\* ----------------------------------------------------------------- state
VARIABLES
    config_,   \* this.config_: name -> descriptor [type, params]
    cache_,    \* this.cache_: name -> value
    heap,      \* the objects create_ allocated, by address
    pc,        \* "idle", or "building" inside the forEach of get
    call,      \* the running or last get: its name and the dependencies
               \* its forEach had not finished when it ended
    result,    \* the outcome of the last call
    cache0,    \* the cache as it was when the last call started
    built,     \* the names whose constructor the last call invoked, in order
    logged,    \* the messages the last call sent to logger_.error
    nCalls     \* calls of set and configure so far

vars == <<config_, cache_, heap, pc, call, result, cache0, built, logged,
          nCalls>>

\* The params objects and descriptors the configurations are drawn from.
P0      == EmptyMap
P1(n)   == Key(1) :> Ref(n)
P2(n,m) == (Key(1) :> Ref(n)) @@ (Key(2) :> Ref(m))
PN(m)   == (Key(1) :> NullParam) @@ (Key(2) :> Ref(m))
Desc(t, ps) == [type |-> t, params |-> ps]

DescsOf(n) ==
    CASE n = "A" -> {Desc("app.Service", ps) :
                        ps \in {P0, P1("B"), P2("B", "C"), PN("C")}}
      [] n = "B" -> {Desc("app.Service", ps) : ps \in {P0, P1("C"), P1("A")}}
                    \cup {Desc(t, P1("C")) : t \in TypePaths}
      [] OTHER   -> {Desc(t, P0) : t \in {"app.Service", "app.Faulty"}}

\* The config objects a factory is constructed with.
InitConfigs ==
    UNION {{c \in [D -> UNION {DescsOf(n) : n \in D}] :
                \A n \in D : c[n] \in DescsOf(n)} : D \in SUBSET Names}

\* The values the caller injects with set: the number 0 and two objects of
\* its own.
SetValues == {Num(0), Obj(-1), Obj(-2)}

\* The partial config objects the caller passes to configure.
ConfigureInputs ==
    { "C" :> Desc("app.Service", P0),
      "B" :> [type |-> "app.Service"],
      "A" :> [params |-> P1("C")],
      "B" :> [params |-> (Key(1) :> Val(Str(1)))] }

NoCall == [name |-> "", todo |-> <<>>]

Outcome(op, name, arg, thrown, value) ==
    [op |-> op, name |-> name, arg |-> arg, thrown |-> thrown, value |-> value]

\* new DottiFactory(config)
Init ==
    /\ config_ \in InitConfigs
    /\ cache_ = EmptyMap
    /\ heap = <<>>
    /\ pc = "idle"
    /\ call = NoCall
    /\ result = Outcome("new", "", Undefined, NoError, Undefined)
    /\ cache0 = EmptyMap
    /\ built = <<>>
    /\ logged = <<>>
    /\ nCalls = 0

\* The test of get on its own cache entry: if (!this.cache_[name]).
cached(cache, name) == Truthy(Lookup(cache, name))

\* The test of the forEach inverted: if (self.cache_[dependency]).
missing_Inverted(cache, dependency) == Truthy(Lookup(cache, dependency))

\* The test of the forEach of get: if (!self.cache_[dependency]).
missing(cache, dependency) == ~Truthy(Lookup(cache, dependency))

\* An eager get: it builds the first dependency of name, when that is a
\* configured name without references and without an instance, before the
\* sort of the dependencies has ended.
Get_Eager(name) ==
    /\ pc = "idle"
    /\ cache0' = cache_
    /\ logged' = <<>>
    /\ IF cached(cache_, name)
       THEN /\ result' = Outcome("get", name, Undefined, NoError,
                                 Lookup(cache_, name))
            /\ call' = [name |-> name, todo |-> <<>>]
            /\ built' = <<>>
            /\ UNCHANGED <<pc, cache_, heap>>
       ELSE LET dependencies == topology(config_, cache_, name)
                first == next(config_, cache_, name)
                leaf  == IF first.thrown = NoError /\ first.value # <<>>
                         THEN Head(first.value) ELSE name
                eager == /\ leaf # name
                         /\ leaf \in DOMAIN config_
                         /\ missing(cache_, leaf)
                         /\ next(config_, cache_, leaf).thrown = NoError
                         /\ next(config_, cache_, leaf).value = <<>>
                         /\ Len(heap) < MaxObjects
                r     == create_(config_, cache_, heap, leaf)
            IN IF dependencies.thrown # NoError
               THEN /\ result' = Outcome("get", name, Undefined,
                                         dependencies.thrown, Undefined)
                    /\ call' = [name |-> name, todo |-> <<>>]
                    /\ UNCHANGED pc
                    /\ IF eager
                       THEN /\ cache_' = r.cache
                            /\ heap' = r.heap
                            /\ built' = IF r.invoked THEN <<leaf>> ELSE <<>>
                       ELSE /\ built' = <<>>
                            /\ UNCHANGED <<cache_, heap>>
               ELSE /\ Len(heap) + Len(dependencies.value) <= MaxObjects
                    /\ pc' = "building"
                    /\ call' = [name |-> name, todo |-> dependencies.value]
                    /\ result' = Outcome("get", name, Undefined, NoError,
                                         Undefined)
                    /\ built' = <<>>
                    /\ UNCHANGED <<cache_, heap>>
    /\ UNCHANGED <<config_, nCalls>>

\* get(name), up to the forEach: a cached name is returned at once; otherwise
\* the dependencies are sorted, and an exception of the sort ends the call.
Get(name) ==
    /\ pc = "idle"
    /\ cache0' = cache_
    /\ built' = <<>>
    /\ logged' = <<>>
    /\ IF cached(cache_, name)
       THEN /\ result' = Outcome("get", name, Undefined, NoError,
                                 Lookup(cache_, name))
            /\ call' = [name |-> name, todo |-> <<>>]
            /\ UNCHANGED pc
       ELSE LET dependencies == topology(config_, cache_, name)
            IN IF dependencies.thrown # NoError
               THEN /\ result' = Outcome("get", name, Undefined,
                                         dependencies.thrown, Undefined)
                    /\ call' = [name |-> name, todo |-> <<>>]
                    /\ UNCHANGED pc
               ELSE /\ Len(heap) + Len(dependencies.value) <= MaxObjects
                    /\ pc' = "building"
                    /\ call' = [name |-> name, todo |-> dependencies.value]
                    /\ result' = Outcome("get", name, Undefined, NoError,
                                         Undefined)
    /\ UNCHANGED <<config_, cache_, heap, nCalls>>

\* One iteration of the forEach of get: create_ of a dependency that is not
\* in the cache.  An exception of create_ ends the call.
ForEach ==
    /\ pc = "building"
    /\ call.todo # <<>>
    /\ LET dependency == Head(call.todo)
       IN IF ~missing(cache_, dependency)
          THEN /\ call' = [call EXCEPT !.todo = Tail(@)]
               /\ UNCHANGED <<cache_, heap, pc, result, built, logged>>
          ELSE LET r == create_(config_, cache_, heap, dependency)
               IN /\ cache_' = r.cache
                  /\ heap' = r.heap
                  /\ logged' = logged \o r.logged
                  /\ built' = IF r.invoked THEN Append(built, dependency)
                              ELSE built
                  /\ IF r.thrown # NoError
                     THEN /\ pc' = "idle"
                          /\ UNCHANGED call
                          /\ result' = Outcome("get", call.name, Undefined,
                                               r.thrown, Undefined)
                     ELSE /\ call' = [call EXCEPT !.todo = Tail(@)]
                          /\ UNCHANGED <<pc, result>>
    /\ UNCHANGED <<config_, cache0, nCalls>>

\* The end of get: return this.cache_[name].
Return ==
    /\ pc = "building"
    /\ call.todo = <<>>
    /\ pc' = "idle"
    /\ result' = Outcome("get", call.name, Undefined, NoError,
                         Lookup(cache_, call.name))
    /\ UNCHANGED <<config_, cache_, heap, call, cache0, built, logged, nCalls>>

\* set dropping every other cache entry, so that dependents are built anew.
set_Invalidates(cache, name, object) ==
    [cache |-> (name :> object), value |-> Lookup(cache, name)]

\* set returning the object it stored instead of the original one.
set_ReturnsNew(cache, name, object) ==
    [cache |-> Put(cache, name, object), value |-> object]

\* The body of set: the cache it leaves and the value it returns.
set(cache, name, object) ==
    [cache |-> Put(cache, name, object), value |-> Lookup(cache, name)]

\* set(name, object)
Set(name, object) ==
    /\ pc = "idle"
    /\ nCalls < MaxCalls
    /\ nCalls' = nCalls + 1
    /\ cache0' = cache_
    /\ built' = <<>>
    /\ logged' = <<>>
    /\ cache_' = set(cache_, name, object).cache
    /\ result' = Outcome("set", name, object, NoError,
                         set(cache_, name, object).value)
    /\ call' = NoCall
    /\ UNCHANGED <<config_, heap, pc>>

\* configure dropping the cached objects of the names it reconfigures.
configure_DropsCache(cfg, cache, config) ==
    [config |-> merge(cfg, config),
     cache  |-> [n \in DOMAIN cache \ DOMAIN config |-> cache[n]]]

\* The body of configure: the registry and the cache it leaves.
configure(cfg, cache, config) ==
    [config |-> merge(cfg, config), cache |-> cache]

\* configure(config).  A partial descriptor is passed only for a name that
\* has a descriptor.
Configure(config) ==
    /\ pc = "idle"
    /\ nCalls < MaxCalls
    /\ \A n \in DOMAIN config :
          n \in DOMAIN config_ \/ DOMAIN config[n] = {"type", "params"}
    /\ nCalls' = nCalls + 1
    /\ cache0' = cache_
    /\ built' = <<>>
    /\ logged' = <<>>
    /\ config_' = configure(config_, cache_, config).config
    /\ cache_' = configure(config_, cache_, config).cache
    /\ result' = Outcome("configure", "", Undefined, NoError, Undefined)
    /\ call' = NoCall
    /\ UNCHANGED <<heap, pc>>

Next ==
    \/ \E name \in Names : Get(name)
    \/ ForEach
    \/ Return
    \/ \E name \in Names, object \in SetValues : Set(name, object)
    \/ \E config \in ConfigureInputs : Configure(config)

Spec == Init /\ [][Next]_vars

\* ------------------------------------------------ parameter binding runs
\* A second specification for the binding of constructor parameters: a
\* factory constructed with a parameterless B and an A whose params object
\* holds any of the slot keys "1", "2", "10", each with any of the parameter
\* specs below, on which get is called.
BindKeys  == {Key(1), Key(2), Key(10)}
BindSpecs == {Ref("B"), Val(Num(7)), Val(Str(1)), Val(Num(0)), Val(Str(0)),
              Val(Bool(FALSE)), DateParam(Str(2)), EmptyParam, NullParam}
BindParams  == UNION {[K -> BindSpecs] : K \in SUBSET BindKeys}
BindConfigs == {("A" :> Desc("app.Service", ps)) @@
                ("B" :> Desc("app.Service", P0)) : ps \in BindParams}

InitBind ==
    /\ config_ \in BindConfigs
    /\ cache_ = EmptyMap
    /\ heap = <<>>
    /\ pc = "idle"
    /\ call = NoCall
    /\ result = Outcome("new", "", Undefined, NoError, Undefined)
    /\ cache0 = EmptyMap
    /\ built = <<>>
    /\ logged = <<>>
    /\ nCalls = 0

NextBind ==
    \/ \E name \in {"A", "B"} : Get(name)
    \/ ForEach
    \/ Return

SpecBind == InitBind /\ [][NextBind]_vars

\* ============================================================ properties
\* The reference targets of the descriptor of n, read off the registry.
Refs(cfg, n) ==
    IF n \notin DOMAIN cfg THEN {}
    ELSE LET ps == cfg[n].params
         IN {ps[k].reference : k \in {j \in DOMAIN ps : "reference" \in DOMAIN ps[j]}}

\* n holds no instance in the cache (no entry, or a falsy one).
Open(cache, n) == ~Truthy(Lookup(cache, n))

\* The least set that holds S and the reference targets of its open names.
RECURSIVE Grow(_, _, _)
Grow(cfg, cache, S) ==
    LET T == S \cup UNION {Refs(cfg, n) : n \in {m \in S : Open(cache, m)}}
    IN IF T = S THEN S ELSE Grow(cfg, cache, T)

\* The open names reachable from root along open names.
Pending(cfg, cache, root) == {n \in Grow(cfg, cache, {root}) : Open(cache, n)}

\* Every name reachable from root through reference parameters.
Reach(cfg, root) == Grow(cfg, EmptyMap, {root})

\* No name of the registry reaches itself through reference parameters.
Acyclic(cfg) == \A n \in Names : n \notin Grow(cfg, EmptyMap, Refs(cfg, n))

\* No pending name of root reaches itself along open names.
PendingAcyclic(cfg, cache, root) ==
    \A n \in Pending(cfg, cache, root) : n \notin Grow(cfg, cache, Refs(cfg, n))

\* Some parameter spec of a pending name of root is null.
PendingNull(cfg, cache, root) ==
    \E n \in Pending(cfg, cache, root) \cap DOMAIN cfg :
        \E k \in DOMAIN cfg[n].params : cfg[n].params[k] = NullParam

\* The last call was a get, and it has ended.
GetEnded == result.op = "get" /\ pc = "idle"
GetReturned == GetEnded /\ result.thrown = NoError
GetThrew == GetEnded /\ result.thrown # NoError

Once(seq, x) == Cardinality({i \in DOMAIN seq : seq[i] = x}) = 1

\* ---- C1 (as stated): for every acyclic configuration and every cache
\* state, a get(root) on a root that is not in the cache constructs exactly
\* once every name reachable from root through reference parameters that was
\* not in the cache when the call started.
C1_AsStated ==
    (GetReturned /\ Acyclic(config_) /\ result.name \notin DOMAIN cache0)
        => \A n \in Reach(config_, result.name) \ DOMAIN cache0 : Once(built, n)

\* ---- C1 (amended): a get(root) that returns normally for a root holding
\* no instance constructs exactly once each name that is reachable from root
\* through the reference parameters of names that hold no instance
\* themselves, and nothing else (a name lying behind an already cached name
\* is not constructed); it constructs a name only after every name it
\* references is in the cache, so A->B->C is built in the order C, B, A and a
\* dependency shared by two dependents is constructed once.
C1_BuildOrder ==
    (GetReturned /\ Open(cache0, result.name))
        => /\ Range(built) = Pending(config_, cache0, result.name)
           /\ \A n \in Range(built) : Once(built, n)
           /\ \A i \in DOMAIN built :
                 \A m \in Refs(config_, built[i]) :
                    \/ Truthy(Lookup(cache0, m))
                    \/ \E j \in 1..(i - 1) : built[j] = m
           /\ \A n \in Range(built) : Truthy(Lookup(cache_, n))

\* The chain A->B->C was built by get("A"), in the order C, B, A.
C1_Witness ==
    /\ GetReturned
    /\ result.name = "A"
    /\ Refs(config_, "A") = {"B"}
    /\ Refs(config_, "B") = {"C"}
    /\ cache0 = EmptyMap
    /\ built = <<"C", "B", "A">>

\* A dependency shared by A and B was built once by get("A").
C1_WitnessShared ==
    /\ GetReturned
    /\ result.name = "A"
    /\ Refs(config_, "A") = {"B", "C"}
    /\ Refs(config_, "B") = {"C"}
    /\ built = <<"C", "B", "A">>

\* ---- C2: for a descriptor with no reference parameters, get(name) on a
\* name holding no instance returns a new instance of the configured type
\* whose constructor was invoked exactly once (it throws instead exactly when
\* the type is no constructor, the constructor throws or a parameter spec is
\* null); a get(name) on a name that holds an instance returns that very
\* instance and invokes no constructor, and the instance a name holds stays
\* the same until a set on that name.
C2_FirstGet ==
    (GetEnded /\ result.name \in DOMAIN config_ /\ Open(cache0, result.name)
        /\ Refs(config_, result.name) = {})
        => LET name == result.name
               type == namespace(config_[name].type)
           IN IF type.isFunction /\ ~type.throws
                    /\ ~PendingNull(config_, cache0, name)
              THEN /\ result.thrown = NoError
                   /\ built = <<name>>
                   /\ result.value = Obj(Len(heap))
                   /\ result.value \notin Range(cache0)
                   /\ cache_[name] = result.value
                   /\ heap[Len(heap)].proto = config_[name].type
                   /\ heap[Len(heap)].constructed
              ELSE result.thrown # NoError

C2_SecondGet ==
    (GetEnded /\ ~Open(cache0, result.name))
        => /\ result.thrown = NoError
           /\ result.value = cache0[result.name]
           /\ built = <<>>
           /\ cache_ = cache0

C2_Kept ==
    \A n \in Names :
        (~Open(cache_, n) /\ Lookup(cache_', n) # cache_[n])
            => (result'.op = "set" /\ result'.name = n)

\* C2, all of it: the first get builds the instance with one constructor
\* call, a later get returns the same instance and builds nothing, and the
\* instance stays in the cache until a set on its name.
C2_CachedInstance ==
    [](C2_FirstGet /\ C2_SecondGet) /\ [][C2_Kept]_vars

\* An instance built without references was returned again by a second get.
C2_Witness ==
    /\ GetReturned
    /\ built = <<>>
    /\ result.value.kind = "object"
    /\ result.value.id > 0
    /\ heap[result.value.id].constructed
    /\ Refs(config_, result.name) = {}
    /\ result.name \in DOMAIN config_

\* ---- C3: for the cyclic configuration A->B->A with neither name holding
\* an instance, get("A") throws the dependency-cycle error naming A or B,
\* never enters its forEach, constructs nothing and leaves the cache as it
\* was, so that neither A nor B is added to the cache during or after the
\* call.
TwoCycle(cfg, a, b) ==
    /\ a # b
    /\ Refs(cfg, a) = {b}
    /\ Refs(cfg, b) = {a}

C3_Cycle ==
    \A b \in Names :
        /\ (GetEnded /\ TwoCycle(config_, result.name, b)
                /\ Open(cache0, result.name) /\ Open(cache0, b))
              => /\ result.thrown.kind = "CycleError"
                 /\ result.thrown.name \in {result.name, b}
                 /\ call.todo = <<>>
                 /\ built = <<>>
                 /\ cache_ = cache0
        /\ (pc = "building"
                /\ Open(cache0, call.name) /\ Open(cache0, b))
              => ~TwoCycle(config_, call.name, b)

\* get("A") on A->B->A has thrown the cycle error.
C3_Witness ==
    /\ GetThrew
    /\ result.name = "A"
    /\ TwoCycle(config_, "A", "B")
    /\ result.thrown.kind = "CycleError"
    /\ "A" \notin DOMAIN cache_
    /\ "B" \notin DOMAIN cache_

\* ---- C4 (as stated): for a descriptor that references, directly or
\* transitively, a name that has no descriptor and is not in the cache, get
\* on that descriptor's name throws the missing-configuration error, which
\* names an unconfigured name other than the root.  Stated for the registries
\* that are acyclic and hold no null parameter spec.
C4_AsStated ==
    (GetEnded /\ result.name \in DOMAIN config_
        /\ Acyclic(config_)
        /\ \A n \in DOMAIN config_ : NullParam \notin Range(config_[n].params)
        /\ \E m \in Reach(config_, result.name) :
              m \notin DOMAIN config_ /\ m \notin DOMAIN cache0)
        => /\ result.thrown.kind = "ReferenceError"
           /\ result.thrown.name \notin DOMAIN config_
           /\ result.thrown.name # result.name

\* ---- C4 (amended): when the root has a descriptor and holds no instance,
\* and a name that has no descriptor and holds no instance is reachable from
\* it through the reference parameters of names that hold no instance, get
\* throws before it constructs anything and leaves the cache as it was; a
\* missing-configuration error names such an unconfigured dependency, never
\* the root; and the error is the missing-configuration error whenever the
\* pending names hold no cycle and no null parameter spec (otherwise the
\* traversal may meet the cycle or the null spec first and throw for that).
MissingPending(cfg, cache, root) ==
    {m \in Pending(cfg, cache, root) : m \notin DOMAIN cfg}

C4_MissingConfiguration ==
    (GetEnded /\ result.name \in DOMAIN config_ /\ Open(cache0, result.name)
        /\ MissingPending(config_, cache0, result.name) # {})
        => /\ result.thrown.kind \in {"ReferenceError", "CycleError", "TypeError"}
           /\ call.todo = <<>>
           /\ built = <<>>
           /\ cache_ = cache0
           /\ result.thrown.kind = "ReferenceError"
                 => result.thrown.name \in
                        MissingPending(config_, cache0, result.name)
           /\ (PendingAcyclic(config_, cache0, result.name)
                    /\ ~PendingNull(config_, cache0, result.name))
                 => result.thrown.kind = "ReferenceError"

\* get("A") on A->B->C with C unconfigured has thrown, naming C.
C4_Witness ==
    /\ GetThrew
    /\ result.name = "A"
    /\ Refs(config_, "A") = {"B"}
    /\ Refs(config_, "B") = {"C"}
    /\ "C" \notin DOMAIN config_
    /\ result.thrown = Throw("ReferenceError", "C")

\* ---- C5 (as stated): set(X, obj) followed by get(X) returns obj, whatever
\* obj is and whether or not X has a descriptor, throws nothing, resolves no
\* dependency and constructs nothing.
C5_AsStated ==
    (GetEnded /\ result.name \in DOMAIN cache0
        /\ cache0[result.name] \in SetValues)
        => /\ result.thrown = NoError
           /\ result.value = cache0[result.name]
           /\ built = <<>>
           /\ cache_ = cache0

\* ---- C6: set(X, v) overwrites the cache entry of X with v, leaves every
\* other entry alone, constructs nothing and returns the value X held just
\* before the call (undefined when X held none), also when that value was
\* built by get; a get(X) that follows the set of an object returns that
\* object.
C6_SetReturnsPrevious ==
    /\ result.op = "set"
          => /\ cache_ = Put(cache0, result.name, result.arg)
             /\ result.value = Lookup(cache0, result.name)
             /\ result.thrown = NoError
             /\ built = <<>>
    /\ (GetEnded /\ Lookup(cache0, result.name) \in SetValues
            /\ Truthy(Lookup(cache0, result.name)))
          => /\ result.thrown = NoError
             /\ result.value = cache0[result.name]

\* set(X, obj1) then set(X, obj2) has returned obj1 and stored obj2.
C6_Witness ==
    /\ result.op = "set"
    /\ result.value = Obj(-1)
    /\ result.arg = Obj(-2)
    /\ cache_[result.name] = Obj(-2)

\* set(X, obj) has returned the instance get had built for X.
C6_WitnessBuilt ==
    /\ result.op = "set"
    /\ result.value.kind = "object"
    /\ result.value.id > 0
    /\ result.arg = Obj(-1)

\* ---- C7: configure leaves the whole cache unchanged and constructs
\* nothing, and a get(X) on a name that holds an instance returns that
\* instance whatever the registry says about X by then.
C7_ConfigureKeepsCache ==
    /\ result.op = "configure"
          => /\ cache_ = cache0
             /\ built = <<>>
             /\ result.thrown = NoError
    /\ (GetEnded /\ ~Open(cache0, result.name))
          => /\ result.value = cache0[result.name]
             /\ cache_ = cache0
             /\ built = <<>>

\* A was built with a reference to B, configure made its descriptor
\* reference C instead, and get("A") has returned the instance built with B.
C7_Witness ==
    /\ GetReturned
    /\ result.name = "A"
    /\ Refs(config_, "A") = {"C"}
    /\ result.value.kind = "object"
    /\ result.value.id > 0
    /\ heap[result.value.id].constructed
    /\ Truthy(Lookup(cache_, "B"))
    /\ heap[result.value.id].args = <<Undefined, cache_["B"]>>
    /\ Lookup(cache_, "C") # cache_["B"]

\* ---- C8 (as stated): building one name writes the cache only on success:
\* when create_ of a name throws (the type is no constructor, or the
\* constructor throws), no cache entry of that name was written.
C8_AsStated ==
    (GetThrew /\ call.todo # <<>>)
        => Lookup(cache_, Head(call.todo)) = Lookup(cache0, Head(call.todo))

\* ---- C9 (as stated): when get throws while building the k-th name of its
\* build order, the names built before it hold their instances, the failing
\* name and every name after it in the order hold none, and get returns no
\* instance.
C9_AsStated ==
    (GetThrew /\ call.todo # <<>>)
        => /\ \A n \in Range(built) \ Range(call.todo) : Truthy(Lookup(cache_, n))
           /\ \A n \in Range(call.todo) : Open(cache0, n) => Open(cache_, n)
           /\ result.value = Undefined

\* ---- C10 (as stated): once a name is present in the cache, with any
\* value, no get constructs it again or replaces its entry: during and after
\* a get every entry the cache held when the call started is unchanged.
C10_AsStated ==
    result.op = "get" => \A n \in DOMAIN cache0 : cache_[n] = cache0[n]

\* ------------------------------------------------------------------ C11
\* The object the running or last get constructed for n: n is among the
\* names whose constructor ran to its end, and the cache holds the object.
Constructed(n) ==
    /\ result.op = "get"
    /\ n \in Range(built)
    /\ Lookup(cache_, n).kind = "object"
    /\ Lookup(cache_, n).id \in 1..Len(heap)
    /\ heap[cache_[n].id].constructed

ArgsOf(n) == heap[cache_[n].id].args

\* The slot numbers of a params object.
Slots(ps) == {parseInt(k) : k \in DOMAIN ps}

\* The arguments at the positions p-1 \in S, read from left to right.
RECURSIVE Pick(_, _, _)
Pick(args, S, p) ==
    IF p > Len(args) THEN <<>>
    ELSE (IF p - 1 \in S THEN <<args[p]>> ELSE <<>>) \o Pick(args, S, p + 1)

\* The values of the slots of ps, in ascending numeric order of the keys.
InSlotOrder(cache, ps) ==
    LET ks == ObjectKeys(DOMAIN ps)
    IN [i \in DOMAIN ks |-> bind(cache, ps[ks[i]])]

\* C11: read from left to right, the argument list a constructor received
\* holds the resolved values of the slots in ascending numeric order of the
\* slot keys ("1", "2", "10"), not in their lexicographic order
\* ("1", "10", "2").
C11_NumericOrder ==
    \A n \in Names :
        Constructed(n) =>
            LET ps == config_[n].params
            IN Pick(ArgsOf(n), Slots(ps), 1) = InSlotOrder(cache_, ps)

\* get("A") returned an A built from slots "2", "10", "1" holding three
\* different values: the value of slot 2 sits before the value of slot 10.
C11_Witness ==
    /\ GetReturned /\ result.name = "A" /\ Constructed("A")
    /\ config_["A"].params =
           (Key(2) :> Val(Num(7))) @@ (Key(10) :> Val(Str(1))) @@
           (Key(1) :> Ref("B"))
    /\ Pick(ArgsOf("A"), {1, 2, 10}, 1) = <<cache_["B"], Num(7), Str(1)>>
    /\ ArgsOf("A")[3] = Num(7) /\ ArgsOf("A")[11] = Str(1)

\* ------------------------------------------------------------------ C12
\* v is an instance a caller can use: an object of the caller, or an object
\* of the factory whose constructor ran to its end.
Instance(v) ==
    /\ v.kind = "object"
    /\ v.id > 0 => v.id \in 1..Len(heap) /\ heap[v.id].constructed

\* Nothing is left that could make get(root) fail: the registry has no
\* cycle, and every name root reaches either holds an object of the caller
\* or has a descriptor with a constructor that returns normally and without
\* a null parameter spec.
Repaired(cfg, cache, root) ==
    /\ Acyclic(cfg)
    /\ \A n \in Reach(cfg, root) :
          \/ Lookup(cache, n).kind = "object" /\ Lookup(cache, n).id < 0
          \/ /\ n \in DOMAIN cfg
             /\ namespace(cfg[n].type).isFunction
             /\ ~namespace(cfg[n].type).throws
             /\ NullParam \notin Range(cfg[n].params)

\* C12 (as stated): after a get failed in a constructor (the heap holds an
\* object whose constructor did not finish) and the registry was repaired,
\* get(root) returns an instance, and constructs no name that held an
\* instance when it was called.
C12_AsStated ==
    (/\ GetEnded
     /\ \E i \in DOMAIN heap : ~heap[i].constructed
     /\ Repaired(config_, cache0, result.name))
    => /\ GetReturned
       /\ Instance(result.value)
       /\ \A n \in Range(built) : Open(cache0, n)

\* ------------------------------------------------------------------ C13
\* The type path of the descriptor of n resolves to something that is no
\* function.
NotConstructible(cfg, n) ==
    n \in DOMAIN cfg /\ ~namespace(cfg[n].type).isFunction

\* C13: a get that comes to build a name n whose type is no function ends
\* with a TypeError for n, has sent exactly one message about n to the
\* logger, has not invoked a constructor for n and leaves the cache slot of n
\* as it was, without an instance.  No get returns normally over such a
\* name, no constructor is ever invoked for one, and the logger gets no
\* message from a get that goes on.
C13_NotConstructible ==
    /\ (GetThrew /\ call.todo # <<>>
             /\ NotConstructible(config_, Head(call.todo)))
        => LET n == Head(call.todo)
           IN /\ result.thrown = Throw("TypeError", n)
              /\ logged = <<[name |-> n, type |-> config_[n].type]>>
              /\ n \notin Range(built)
              /\ Lookup(cache_, n) = Lookup(cache0, n)
              /\ Open(cache_, n)
    /\ (GetReturned /\ Open(cache0, result.name))
        => \A n \in Pending(config_, cache0, result.name) :
               ~NotConstructible(config_, n)
    /\ result.op = "get"
        => \A n \in Range(built) : ~NotConstructible(config_, n)
    /\ logged # <<>> => GetThrew /\ result.thrown.kind = "TypeError"

\* get("A") with A -> B -> C, where the type of B is a plain object: C was
\* built, then the build of B failed with one message to the logger.
C13_Witness ==
    /\ GetThrew /\ result.name = "A"
    /\ result.thrown = Throw("TypeError", "B")
    /\ config_["B"].type = "app.settings"
    /\ logged = <<[name |-> "B", type |-> "app.settings"]>>
    /\ built = <<"C">>
    /\ "B" \notin DOMAIN cache_

\* ------------------------------------------------------------------ C14
\* A parameter spec of the shape {value: v}.
PlainValue(param) == param # NullParam /\ DOMAIN param = {"value"}

\* The argument at zero-based position k; undefined beyond the last one.
ArgAt(args, k) == IF k + 1 \in DOMAIN args THEN args[k + 1] ELSE Undefined

\* C14 (as stated): every plain value {value: v} reaches the constructor as
\* v itself, at the position of its slot, whatever the literal v is.
C14_AsStated ==
    \A n \in Names :
        Constructed(n) =>
            \A k \in DOMAIN config_[n].params :
                LET param == config_[n].params[k]
                IN PlainValue(param) =>
                       ArgAt(ArgsOf(n), parseInt(k)) = param.value

\* C14 (amended): a plain value {value: v} reaches the constructor as v
\* itself when v is truthy; for a falsy literal (0, false, the empty string)
\* the constructor receives undefined at the position of the slot.
C14_TruthyValue ==
    \A n \in Names :
        Constructed(n) =>
            \A k \in DOMAIN config_[n].params :
                LET param == config_[n].params[k]
                IN PlainValue(param) =>
                       /\ parseInt(k) + 1 \in DOMAIN ArgsOf(n)
                       /\ ArgsOf(n)[parseInt(k) + 1] =
                              IF Truthy(param.value) THEN param.value
                              ELSE Undefined

\* get("A") returned an A built from the plain values 7 (slot 1), 0 (slot 2)
\* and "" (slot 10): 7 arrived, 0 and "" arrived as undefined.
C14_Witness ==
    /\ GetReturned /\ result.name = "A" /\ Constructed("A")
    /\ config_["A"].params =
           (Key(1) :> Val(Num(7))) @@ (Key(2) :> Val(Num(0))) @@
           (Key(10) :> Val(Str(0)))
    /\ ArgsOf("A")[2] = Num(7)
    /\ ArgsOf("A")[3] = Undefined
    /\ ArgsOf("A")[11] = Undefined

\* ------------------------------------------------------------------ C15
\* An absent parameter spec: null, or an object without reference, type and
\* value.
Absent(param) == param = NullParam \/ DOMAIN param = {}

\* Every name root reaches has a descriptor whose type is a constructor that
\* returns normally, and the registry has no cycle.
Buildable(cfg, root) ==
    /\ Acyclic(cfg)
    /\ \A n \in Reach(cfg, root) :
          /\ n \in DOMAIN cfg
          /\ namespace(cfg[n].type).isFunction
          /\ ~namespace(cfg[n].type).throws

\* C15 (as stated): a get(name) on a buildable name whose descriptor holds
\* an absent parameter spec returns normally; the constructor received
\* undefined at the position of every absent slot and the bound value of
\* every other slot at the position of that slot.
C15_AsStated ==
    LET name == result.name
    IN (/\ GetEnded /\ Open(cache0, name) /\ Buildable(config_, name)
        /\ \E k \in DOMAIN config_[name].params :
               Absent(config_[name].params[k]))
       => /\ GetReturned
          /\ Constructed(name)
          /\ \A k \in DOMAIN config_[name].params :
                LET param == config_[name].params[k]
                IN /\ parseInt(k) + 1 \in DOMAIN ArgsOf(name)
                   /\ ArgsOf(name)[parseInt(k) + 1] =
                          IF Absent(param) THEN Undefined
                          ELSE bind(cache_, param)

\* ------------------------------------------------------------------ C16
\* C16: when the forEach of get is about to build a name, every target of
\* its reference parameters holds an instance in the cache; and every
\* reference parameter of a name the get has built was bound to the cached
\* instance of its target, never to undefined.
C16_ReferenceBound ==
    /\ (pc = "building" /\ call.todo # <<>>
             /\ missing(cache_, Head(call.todo)))
        => \A m \in Refs(config_, Head(call.todo)) :
               m \in DOMAIN cache_ /\ Truthy(cache_[m])
    /\ \A n \in Names :
          Constructed(n) =>
              \A k \in DOMAIN config_[n].params :
                  LET param == config_[n].params[k]
                  IN "reference" \in DOMAIN param =>
                         /\ param.reference \in DOMAIN cache_
                         /\ Truthy(cache_[param.reference])
                         /\ ArgAt(ArgsOf(n), parseInt(k)) =
                                cache_[param.reference]

\* get("A") returned an A that references B and C: B had been injected by
\* set, C was built by the factory, and A received both.
C16_Witness ==
    /\ GetReturned /\ result.name = "A" /\ Constructed("A")
    /\ config_["A"].params = P2("B", "C")
    /\ Lookup(cache_, "B").kind = "object" /\ Lookup(cache_, "B").id < 0
    /\ Lookup(cache_, "C").kind = "object" /\ Lookup(cache_, "C").id > 0
    /\ ArgsOf("A") = <<Undefined, cache_["B"], cache_["C"]>>

\* ------------------------------------------------------------------ C17
\* C17: when get(name) returns normally for a name that held no instance,
\* name and every name of the build order it computed hold an instance in
\* the cache, every name that was pending has been constructed by this
\* call, and the value returned is the cache entry of name.
C17_SubgraphBuilt ==
    (GetReturned /\ Open(cache0, result.name))
    => LET name  == result.name
           order == topology(config_, cache0, name).value
       IN /\ name \in Range(order)
          /\ \A n \in Range(order) :
                n \in DOMAIN cache_ /\ Truthy(cache_[n])
          /\ \A n \in Pending(config_, cache0, name) : Constructed(n)
          /\ name \in DOMAIN cache_
          /\ result.value = cache_[name]

\* get("A") returned after building the chain A -> B -> C.
C17_Witness ==
    /\ GetReturned /\ result.name = "A" /\ cache0 = EmptyMap
    /\ built = <<"C", "B", "A">>
    /\ result.value = cache_["A"]
    /\ DOMAIN cache_ = {"A", "B", "C"}

\* ------------------------------------------------------------------ C18
\* C18: a get that fails with the missing-configuration error or the cycle
\* error has invoked no constructor, has sent nothing to the logger and
\* leaves every cache slot as it was when the call started, the slots of the
\* buildable names of its subgraph included.
C18_ResolveBeforeBuild ==
    (GetThrew /\ result.thrown.kind \in {"ReferenceError", "CycleError"})
    => /\ built = <<>>
       /\ logged = <<>>
       /\ cache_ = cache0
       /\ \A n \in Pending(config_, cache0, result.name) : Open(cache_, n)

\* get("A") with A -> B, C, where B is buildable and C has no descriptor:
\* the get failed on C and B was not built.
C18_Witness ==
    /\ GetThrew /\ result.name = "A"
    /\ result.thrown = Throw("ReferenceError", "C")
    /\ DOMAIN config_ = {"A", "B"}
    /\ config_["A"].params = P2("B", "C")
    /\ config_["B"] = Desc("app.Service", P0)
    /\ cache_ = EmptyMap /\ heap = <<>>

\* ------------------------------------------------------------------ C19
\* C19: the constructor of a name with slots receives as many arguments as
\* its largest slot number plus one; the argument at zero-based position p
\* is the bound value of the slot with number p, and undefined when no slot
\* has that number.  With the slots 1..n it receives n+1 arguments, the
\* first of them undefined.  Without slots it receives no argument.
C19_PositionIsSlot ==
    \A n \in Names :
        Constructed(n) =>
            LET ps   == config_[n].params
                S    == Slots(ps)
                args == ArgsOf(n)
                max  == CHOOSE m \in S : \A p \in S : p <= m
            IN IF S = {} THEN args = <<>>
               ELSE /\ Len(args) = max + 1
                    /\ \A p \in 0..max :
                          args[p + 1] =
                              IF p \in S
                              THEN bind(cache_,
                                        ps[CHOOSE k \in DOMAIN ps : parseInt(k) = p])
                              ELSE Undefined
                    /\ S = 1..Cardinality(S)
                          => Len(args) = Cardinality(S) + 1 /\ args[1] = Undefined

\* get("A") returned an A built from the slots "1" and "2": three arguments,
\* the first undefined.
C19_Witness ==
    /\ GetReturned /\ result.name = "A" /\ Constructed("A")
    /\ config_["A"].params = (Key(1) :> Val(Num(7))) @@ (Key(2) :> Val(Str(1)))
    /\ ArgsOf("A") = <<Undefined, Num(7), Str(1)>>

\* get("A") returned an A built from the one slot "10": eleven arguments,
\* the first ten undefined.
C19_WitnessGap ==
    /\ GetReturned /\ result.name = "A" /\ Constructed("A")
    /\ config_["A"].params = (Key(10) :> Val(Num(7)))
    /\ Len(ArgsOf("A")) = 11
    /\ \A p \in 1..10 : ArgsOf("A")[p] = Undefined
    /\ ArgsOf("A")[11] = Num(7)

\* ------------------------------------------------------------------ C20
\* A set constructs nothing and leaves the cache slot of every other name
\* as it was; a get on a name that holds an instance returns that instance
\* and constructs nothing; a name the get has built received the instances
\* its targets hold in the cache now.
C20_State ==
    /\ result.op = "set"
        => /\ built = <<>>
           /\ \A n \in Names \ {result.name} :
                 Lookup(cache_, n) = Lookup(cache0, n)
    /\ (GetEnded /\ ~Open(cache0, result.name))
        => /\ built = <<>>
           /\ GetReturned
           /\ result.value = cache0[result.name]
           /\ cache_ = cache0
    /\ \A n \in Names :
          Constructed(n) =>
              \A k \in DOMAIN config_[n].params :
                  "reference" \in DOMAIN config_[n].params[k]
                  => ArgAt(ArgsOf(n), parseInt(k)) =
                         Lookup(cache_, config_[n].params[k].reference)

\* No step changes an object the factory has allocated: the arguments its
\* constructor received stay what they were.
C20_HeapKept ==
    \A i \in DOMAIN heap : i \in DOMAIN heap' /\ heap'[i] = heap[i]

\* C20: a reference parameter is bound once, when the dependent is
\* constructed: a later set on the target neither rebuilds nor rebinds the
\* dependent, get on the dependent keeps returning the same instance with
\* the arguments it was built with, and a name built after the set receives
\* the new instance.
C20_BoundOnce == []C20_State /\ [][C20_HeapKept]_vars

\* get("A") returned the A built with the B of the factory, after set
\* replaced B by an object of the caller: A still holds the old B.
C20_Witness ==
    /\ GetReturned /\ result.name = "A" /\ built = <<>>
    /\ Lookup(config_, "A") = Desc("app.Service", P1("B"))
    /\ result.value = Lookup(cache_, "A")
    /\ result.value.kind = "object" /\ result.value.id \in DOMAIN heap
    /\ heap[result.value.id].constructed
    /\ Len(heap[result.value.id].args) = 2
    /\ heap[result.value.id].args[2].kind = "object"
    /\ heap[result.value.id].args[2].id > 0
    /\ Lookup(cache_, "B") = Obj(-1)

\* get("A") built A after set had replaced the B the factory had built
\* (the first object of the heap): A received the new B.
C20_WitnessAfter ==
    /\ GetReturned /\ result.name = "A" /\ Constructed("A")
    /\ Lookup(config_, "A") = Desc("app.Service", P1("B"))
    /\ Lookup(config_, "B") = Desc("app.Service", P0)
    /\ Len(heap) = 2 /\ heap[1].args = <<>> /\ cache_["A"] = Obj(2)
    /\ Lookup(cache_, "B") = Obj(-1)
    /\ ArgsOf("A") = <<Undefined, Obj(-1)>>
====
